---- MODULE Spec2Model ----
(***************************************************************************)
(* A model of udp-tcp-lite: the packet codec shared by both programs, the  *)
(* Responder (tcp_like_server.py) and the Initiator (tcp_like_client.py).  *)
(*                                                                         *)
(* Python integers are unbounded while TLC's are 32-bit signed, so every   *)
(* sequence or acknowledgment number is kept as two 16-bit limbs           *)
(* [hi, lo] standing for hi * 65536 + lo.  A value fits the wire's         *)
(* unsigned 32-bit field exactly when hi <= 65535.                         *)
(***************************************************************************)
EXTENDS Integers, Sequences, FiniteSets, TLC

\* ------------------------------------------------------------------------
\* Integers as the code computes with them
\* ------------------------------------------------------------------------

Num(h, l) == [hi |-> h, lo |-> l]

\* v + k for a small non-negative k (Python's int addition, never wrapping).
Plus(v, k) == Num(v.hi + ((v.lo + k) \div 65536), (v.lo + k) % 65536)

Less(a, b) == a.hi < b.hi \/ (a.hi = b.hi /\ a.lo < b.lo)

Leq(a, b) == a = b \/ Less(a, b)

\* struct.pack("!I", v) accepts v exactly when 0 <= v <= 0xffffffff.
FitsU32(v) == v.hi <= 65535

\* BytesU32 writing the field least significant byte first.
BytesU32LE(v) == << v.lo % 256, v.lo \div 256, v.hi % 256, v.hi \div 256 >>

\* The four big-endian bytes of an "I" field.
BytesU32(v) == << v.hi \div 256, v.hi % 256, v.lo \div 256, v.lo % 256 >>

\* The two big-endian bytes of an "H" field.
BytesU16(n) == << n \div 256, n % 256 >>

U32At(raw, i) == Num(raw[i] * 256 + raw[i + 1], raw[i + 2] * 256 + raw[i + 3])

U16At(raw, i) == raw[i] * 256 + raw[i + 1]

\* Python's raw[a:b] with 0 <= a <= b: positions a+1 .. b (1-based), clipped
\* to the bytes that exist.
Slice(raw, a, b) ==
    LET hiEnd == IF b < Len(raw) THEN b ELSE Len(raw)
    IN  IF a >= hiEnd THEN << >> ELSE SubSeq(raw, a + 1, hiEnd)

\* Bitwise and of two flag bytes.
RECURSIVE BitAnd(_, _)
BitAnd(a, b) ==
    IF a = 0 \/ b = 0 THEN 0
    ELSE (a % 2) * (b % 2) + 2 * BitAnd(a \div 2, b \div 2)

\* ------------------------------------------------------------------------
\* Program constants
\* ------------------------------------------------------------------------

HDR_SIZE == 13

MAX_RETRIES == 5

FLAG_SYN == 1

FLAG_ACK == 2

FLAG_FIN == 4

FLAG_PSH == 8

\* The advertised window both programs write into every packet.
WND == 1

\* random.randint(0, 0x7fffffff): the largest initial sequence number drawn.
MaxIsn == Num(32767, 65535)

\* ------------------------------------------------------------------------
\* Packet codec
\* ------------------------------------------------------------------------

RECURSIVE ChecksumFrom(_, _, _)
ChecksumFrom(data, i, s) ==
    IF i > Len(data) THEN s
    ELSE LET w == data[i] * 256 + (IF i + 1 <= Len(data) THEN data[i + 1] ELSE 0)
             t == s + w
         IN  ChecksumFrom(data, i + 2, (t % 65536) + (t \div 65536))

checksum(data) == 65535 - (ChecksumFrom(data, 1, 0) % 65536)

\* A datagram on success, the exception struct.pack raises otherwise.
pack_packet(seq, ack, flags, wnd, payload) ==
    IF FitsU32(seq) /\ FitsU32(ack) /\ flags <= 255 /\ wnd <= 65535
       /\ Len(payload) <= 65535
    THEN LET body == BytesU32(seq) \o BytesU32(ack) \o << flags >>
                     \o BytesU16(wnd) \o BytesU16(Len(payload)) \o payload
         IN  [tag |-> "bytes", raw |-> body \o BytesU16(checksum(body))]
    ELSE [tag |-> "struct.error", raw |-> << >>]

NoPkt == [seq |-> Num(0, 0), ack |-> Num(0, 0), flags |-> 0, wnd |-> 0,
          payload |-> << >>]

\* tag "pkt": the decoded dict; "None": the datagram is rejected;
\* "struct.error": struct.unpack was handed fewer than two checksum bytes.
unpack_packet(raw) ==
    IF Len(raw) < HDR_SIZE + 2 THEN [tag |-> "None", pkt |-> NoPkt]
    ELSE LET payload_len == U16At(raw, 12)
             payload == Slice(raw, HDR_SIZE, HDR_SIZE + payload_len)
             cks_bytes == Slice(raw, HDR_SIZE + payload_len,
                                HDR_SIZE + payload_len + 2)
         IN  IF Len(cks_bytes) # 2
             THEN [tag |-> "struct.error", pkt |-> NoPkt]
             ELSE IF checksum(Slice(raw, 0, HDR_SIZE + payload_len))
                     # U16At(cks_bytes, 1)
                  THEN [tag |-> "None", pkt |-> NoPkt]
                  ELSE [tag |-> "pkt",
                        pkt |-> [seq |-> U32At(raw, 1), ack |-> U32At(raw, 5),
                                 flags |-> raw[9], wnd |-> U16At(raw, 10),
                                 payload |-> payload]]

\* b"Hello from client (reliable over UDP)!"
PAYLOAD ==
    << 72, 101, 108, 108, 111, 32, 102, 114, 111, 109, 32, 99, 108, 105, 101,
       110, 116, 32, 40, 114, 101, 108, 105, 97, 98, 108, 101, 32, 111, 118,
       101, 114, 32, 85, 68, 80, 41, 33 >>

\* The datagram pack_packet returns for fields that fit their widths.
Wire(seq, ack, flags, payload) == pack_packet(seq, ack, flags, WND, payload).raw

\* ------------------------------------------------------------------------
\* Responder: TCPLikeServer
\*
\* The server's shared state is S = [conns, heap]: self.connections maps a
\* peer to a reference, heap maps each reference to the dict it denotes
\* (a handler keeps its reference in the local "state" even after the table
\* entry was replaced or deleted).  A handler thread is
\*   t = [peer, pkt, pc, st, isn, tmp, raced]
\* with pc the source line it is about to execute; raced is no local of the
\* code: it records that another handler took a step while this one was
\* between its first line and its last.
\* ------------------------------------------------------------------------

EmptyMap == [x \in {} |-> 0]

Put(f, k, v) == [x \in DOMAIN f \cup {k} |-> IF x = k THEN v ELSE f[x]]

Del(f, k) == [x \in DOMAIN f \ {k} |-> f[x]]

NewRef(heap) == CHOOSE i \in 1..(Cardinality(DOMAIN heap) + 1) : i \notin DOMAIN heap

HasFlag(pkt, f) == BitAnd(pkt.flags, f) # 0

Thread(peer, pkt) ==
    [peer |-> peer, pkt |-> pkt, pc |-> "L66", st |-> 0, isn |-> Num(0, 0),
     tmp |-> Num(0, 0), raced |-> FALSE]

\* What one handler step yields: the new shared state, the thread after the
\* step, the datagrams it sent and the exception it raised ("" for none).
Res(S, t, out, err) == [S |-> S, t |-> t, out |-> out, err |-> err]

Goto(S, t, pc) == Res(S, [t EXCEPT !.pc = pc], << >>, "")

Raise(S, t, err) == Res(S, [t EXCEPT !.pc = "done"], << >>, err)

\* pack_packet then sock.sendto(.., peer); a struct.error ends the thread.
SendThen(S, t, packed, pc) ==
    IF packed.tag = "bytes"
    THEN Res(S, [t EXCEPT !.pc = pc], << [to |-> t.peer, raw |-> packed.raw] >>, "")
    ELSE Raise(S, t, "struct.error")

\* OnSyn updating the peer's phase only when the peer has no entry yet.
OnSynKeepPhase(S, t, isn) ==
    LET ref == NewRef(S.heap)
        state == [peer_seq |-> t.pkt.seq, server_seq |-> isn,
                  expected_seq |-> Plus(t.pkt.seq, 1),
                  established |-> IF t.peer \in DOMAIN S.conns
                                  THEN S.heap[S.conns[t.peer]].established ELSE FALSE]
    IN  Res([conns |-> Put(S.conns, t.peer, ref), heap |-> Put(S.heap, ref, state)],
            [t EXCEPT !.pc = "L76", !.st = ref, !.isn = isn], << >>, "")

\* Lines 66-75: a SYN builds a fresh state dict and stores it under the peer.
OnSyn(S, t, isn) ==
    LET ref == NewRef(S.heap)
        state == [peer_seq |-> t.pkt.seq, server_seq |-> isn,
                  expected_seq |-> Plus(t.pkt.seq, 1), established |-> FALSE]
    IN  Res([conns |-> Put(S.conns, t.peer, ref), heap |-> Put(S.heap, ref, state)],
            [t EXCEPT !.pc = "L76", !.st = ref, !.isn = isn], << >>, "")

\* Lines 76-79: the SYN|ACK is packed and sent after the entry was stored.
SendSynAck(S, t) ==
    SendThen(S, t, pack_packet(t.isn, Plus(t.pkt.seq, 1), FLAG_SYN + FLAG_ACK, WND, << >>),
             "done")

\* CheckPeer without the return of line 82.
CheckPeerNoReturn(S, t) == Goto(S, t, "L83")

\* Lines 80-82: anything but a SYN from a peer without an entry is ignored.
CheckPeer(S, t) ==
    IF t.peer \notin DOMAIN S.conns THEN Goto(S, t, "done") ELSE Goto(S, t, "L83")

\* Line 83: state = self.connections[peer].
LookupState(S, t) ==
    IF t.peer \notin DOMAIN S.conns THEN Raise(S, t, "KeyError")
    ELSE Res(S, [t EXCEPT !.pc = "L84", !.st = S.conns[t.peer]], << >>, "")

IsData(pkt) == HasFlag(pkt, FLAG_PSH) \/ Len(pkt.payload) > 0

\* Dispatch without the test of line 91.
DispatchNoPhase(S, t) ==
    LET state == S.heap[t.st]
    IN  IF HasFlag(t.pkt, FLAG_ACK) /\ ~state.established THEN Goto(S, t, "L85")
        ELSE IF IsData(t.pkt) THEN Goto(S, t, "L94")
        ELSE IF HasFlag(t.pkt, FLAG_FIN) THEN Goto(S, t, "L108")
        ELSE Goto(S, t, "done")

\* Lines 84, 91, 92 and 106: which branch the packet takes.
Dispatch(S, t) ==
    LET state == S.heap[t.st]
    IN  IF HasFlag(t.pkt, FLAG_ACK) /\ ~state.established THEN Goto(S, t, "L85")
        ELSE IF ~state.established THEN Goto(S, t, "done")
        ELSE IF IsData(t.pkt) THEN Goto(S, t, "L94")
        ELSE IF HasFlag(t.pkt, FLAG_FIN) THEN Goto(S, t, "L108")
        ELSE Goto(S, t, "done")

\* OnHandshakeAck without the comparison of line 85.
OnHandshakeAckAny(S, t) ==
    Res([S EXCEPT !.heap[t.st].established = TRUE], [t EXCEPT !.pc = "done"], << >>, "")

\* Lines 85-90: the handshake's last ACK.
OnHandshakeAck(S, t) ==
    LET state == S.heap[t.st]
    IN  IF t.pkt.ack = Plus(state.server_seq, 1)
        THEN Res([S EXCEPT !.heap[t.st].established = TRUE],
                 [t EXCEPT !.pc = "done"], << >>, "")
        ELSE Goto(S, t, "done")

\* CheckSeq accepting every seq up to expected_seq.
CheckSeqLoose(S, t) ==
    IF Leq(t.pkt.seq, S.heap[t.st].expected_seq) THEN Goto(S, t, "L97")
    ELSE Goto(S, t, "L102")

\* Line 94: the in-order test.
CheckSeq(S, t) ==
    IF t.pkt.seq = S.heap[t.st].expected_seq THEN Goto(S, t, "L97") ELSE Goto(S, t, "L102")

\* state["expected_seq"] += n is a load, an add and a store.
LoadExpected(S, t, pc) ==
    Res(S, [t EXCEPT !.pc = pc, !.tmp = S.heap[t.st].expected_seq], << >>, "")

StoreExpected(S, t, n, pc) ==
    Res([S EXCEPT !.heap[t.st].expected_seq = Plus(t.tmp, n)],
        [t EXCEPT !.pc = pc], << >>, "")

\* Lines 98-99, 102-103 and 109-110: an ACK carrying the state's current
\* expected_seq.
SendAck(S, t, pc) ==
    LET state == S.heap[t.st]
    IN  SendThen(S, t, pack_packet(state.server_seq, state.expected_seq, FLAG_ACK, WND, << >>),
                 pc)

\* Lines 112-113: the Responder's own FIN, after the sleep.
SendFin(S, t) ==
    LET state == S.heap[t.st]
    IN  SendThen(S, t, pack_packet(state.server_seq, state.expected_seq, FLAG_FIN, WND, << >>),
                 "L115")

\* Line 115: del self.connections[peer].
DelConn(S, t) ==
    IF t.peer \notin DOMAIN S.conns THEN Raise(S, t, "KeyError")
    ELSE Res([S EXCEPT !.conns = Del(S.conns, t.peer)], [t EXCEPT !.pc = "done"], << >>, "")

\* One step of _handle_packet; isn is the value random.randint returns
\* should the step draw one.
HandlerStep(S, t, isn) ==
    CASE t.pc = "L66"   -> IF HasFlag(t.pkt, FLAG_SYN) THEN OnSyn(S, t, isn)
                           ELSE CheckPeer(S, t)
      [] t.pc = "L76"   -> SendSynAck(S, t)
      [] t.pc = "L83"   -> LookupState(S, t)
      [] t.pc = "L84"   -> Dispatch(S, t)
      [] t.pc = "L85"   -> OnHandshakeAck(S, t)
      [] t.pc = "L94"   -> CheckSeq(S, t)
      [] t.pc = "L97"   -> LoadExpected(S, t, "L97w")
      [] t.pc = "L97w"  -> StoreExpected(S, t, Len(t.pkt.payload), "L98")
      [] t.pc = "L98"   -> SendAck(S, t, "done")
      [] t.pc = "L102"  -> SendAck(S, t, "done")
      [] t.pc = "L108"  -> LoadExpected(S, t, "L108w")
      [] t.pc = "L108w" -> StoreExpected(S, t, 1, "L109")
      [] t.pc = "L109"  -> SendAck(S, t, "L112")
      [] t.pc = "L112"  -> SendFin(S, t)
      [] t.pc = "L115"  -> DelConn(S, t)

\* _handle_packet run from its first line to its return (or its exception)
\* with no other handler in between.
RECURSIVE RunHandler(_, _, _, _)
RunHandler(S, t, isn, out) ==
    IF t.pc = "done" THEN Res(S, t, out, "")
    ELSE LET r == HandlerStep(S, t, isn)
         IN  IF r.err # "" THEN Res(r.S, r.t, out \o r.out, r.err)
             ELSE RunHandler(r.S, r.t, isn, out \o r.out)

\* A dict no table entry and no live handler refers to is gone.
Collect(S, refs) ==
    [S EXCEPT !.heap = [r \in {x \in DOMAIN S.heap :
                                  x \in refs \/ \E p \in DOMAIN S.conns : S.conns[p] = x}
                        |-> S.heap[r]]]

\* ------------------------------------------------------------------------
\* Initiator: tcp_like_client.py
\*
\* The Initiator's locals are the record c: pc is the line it is about to
\* execute, step the send_and_wait call of main it is in ("syn", "data",
\* "fin"), pkt/xflags/xack that call's arguments (xack is << >> for None),
\* r the call's result (<< >> for None), sends the sendto calls the current
\* send_and_wait made, rcv the datagram the latest step received.
\* A client step yields [c, out]: the new locals and the datagrams it sent.
\* ------------------------------------------------------------------------

ClientIdle ==
    [pc |-> "main", client_isn |-> Num(0, 0), server_isn |-> Num(0, 0),
     step |-> "", pkt |-> << >>, xflags |-> 0, xack |-> << >>, attempts |-> 0,
     sends |-> 0, r |-> << >>, rcv |-> << >>, exc |-> "", where |-> ""]

CRes(c, o) == [c |-> c, out |-> o]

\* Lines 47-48: a call of send_and_wait.
EnterSaw(c, step, pkt, xflags, xack) ==
    [c EXCEPT !.pc = "L49", !.step = step, !.pkt = pkt, !.xflags = xflags,
              !.xack = xack, !.attempts = 0, !.sends = 0, !.r = << >>,
              !.rcv = << >>]

\* An uncaught struct.error ends main; where is the line it came from.
Crash(c) == [c EXCEPT !.pc = "crashed", !.exc = "struct.error", !.where = c.pc]

\* Lines 72-75: main draws client_isn and calls send_and_wait on the SYN.
MainStart(c, isn) ==
    CRes(EnterSaw([c EXCEPT !.client_isn = isn], "syn",
                  Wire(isn, Num(0, 0), FLAG_SYN, << >>), FLAG_SYN + FLAG_ACK, << >>),
         << >>)

\* Lines 49-50 and 68: the loop test, then the send or the return of None.
SawLoop(c) ==
    IF c.attempts < MAX_RETRIES
    THEN CRes([c EXCEPT !.pc = "L53", !.sends = c.sends + 1, !.rcv = << >>], << c.pkt >>)
    ELSE CRes([c EXCEPT !.pc = "ret", !.r = << >>, !.rcv = << >>], << >>)

Consume(c) == [c EXCEPT !.pc = "L49", !.attempts = c.attempts + 1]

\* Lines 53-64: a datagram arrived before the timeout.
SawOnDatagram(c, raw) ==
    LET u == unpack_packet(raw)
        cr == [c EXCEPT !.rcv = << raw >>]
    IN  IF u.tag = "struct.error" THEN CRes(Crash(cr), << >>)
        ELSE IF u.tag = "None" THEN CRes(Consume(cr), << >>)
        ELSE IF c.xflags # 0 /\ BitAnd(u.pkt.flags, c.xflags) = 0
             THEN CRes(Consume(cr), << >>)
        ELSE IF c.xack # << >> /\ u.pkt.ack # c.xack[1] THEN CRes(Consume(cr), << >>)
        ELSE CRes([cr EXCEPT !.pc = "ret", !.r = << u.pkt >>], << >>)

\* Lines 65-67: socket.timeout.
SawOnTimeout(c) == CRes(Consume([c EXCEPT !.rcv = << >>]), << >>)

\* Lines 76-87: after the SYN step main gives up, or sends the handshake ACK
\* once and calls send_and_wait on the data packet.
AfterSyn(c) ==
    IF c.r = << >> THEN CRes([c EXCEPT !.pc = "done"], << >>)
    ELSE LET sisn == c.r[1].seq
             ack_pkt == pack_packet(Plus(c.client_isn, 1), Plus(sisn, 1), FLAG_ACK, WND, << >>)
             data_pkt == pack_packet(Plus(c.client_isn, 1), Plus(sisn, 1), FLAG_PSH, WND, PAYLOAD)
         IN  IF ack_pkt.tag # "bytes" THEN CRes(Crash(c), << >>)
             ELSE CRes(EnterSaw([c EXCEPT !.server_isn = sisn], "data", data_pkt.raw,
                                FLAG_ACK,
                                << Plus(Plus(c.client_isn, 1), Len(PAYLOAD)) >>),
                       << ack_pkt.raw >>)

\* Lines 88-94: whatever the data step returned, main calls send_and_wait on
\* the FIN.
AfterData(c) ==
    CRes(EnterSaw(c, "fin",
                  Wire(Plus(c.client_isn, 1), Plus(c.server_isn, 1), FLAG_FIN, << >>),
                  FLAG_ACK, << >>),
         << >>)

\* Lines 95-98 and 107-109: with the FIN acknowledged main waits once for the
\* Responder's FIN, otherwise it closes.
AfterFin(c) ==
    IF c.r = << >> THEN CRes([c EXCEPT !.pc = "done"], << >>)
    ELSE CRes([c EXCEPT !.pc = "L99", !.rcv = << >>], << >>)

AfterSaw(c) ==
    CASE c.step = "syn"  -> AfterSyn(c)
      [] c.step = "data" -> AfterData(c)
      [] c.step = "fin"  -> AfterFin(c)

\* FinWaitOnDatagram with the final ACK reusing the FIN's own seq.
FinWaitStaleSeq(c, raw) ==
    LET u == unpack_packet(raw)
        cr == [c EXCEPT !.rcv = << raw >>]
        final_ack == pack_packet(Plus(c.client_isn, 1), Plus(u.pkt.seq, 1), FLAG_ACK, WND, << >>)
    IN  IF u.tag = "struct.error" THEN CRes(Crash(cr), << >>)
        ELSE IF u.tag = "pkt" /\ HasFlag(u.pkt, FLAG_FIN)
             THEN IF final_ack.tag # "bytes" THEN CRes(Crash(cr), << >>)
                  ELSE CRes([cr EXCEPT !.pc = "done"], << final_ack.raw >>)
        ELSE CRes([cr EXCEPT !.pc = "done"], << >>)

\* Lines 99-104: the datagram received while waiting for the Responder's FIN.
FinWaitOnDatagram(c, raw) ==
    LET u == unpack_packet(raw)
        cr == [c EXCEPT !.rcv = << raw >>]
        final_ack == pack_packet(Plus(c.client_isn, 2), Plus(u.pkt.seq, 1), FLAG_ACK, WND, << >>)
    IN  IF u.tag = "struct.error" THEN CRes(Crash(cr), << >>)
        ELSE IF u.tag = "pkt" /\ HasFlag(u.pkt, FLAG_FIN)
             THEN IF final_ack.tag # "bytes" THEN CRes(Crash(cr), << >>)
                  ELSE CRes([cr EXCEPT !.pc = "done"], << final_ack.raw >>)
        ELSE CRes([cr EXCEPT !.pc = "done"], << >>)

\* Lines 105-106: socket.timeout while waiting for the Responder's FIN.
FinWaitOnTimeout(c) == CRes([c EXCEPT !.pc = "done", !.rcv = << >>], << >>)

\* ------------------------------------------------------------------------
\* State
\* ------------------------------------------------------------------------

VARIABLES
    connections,  \* self.connections: peer -> reference of its state dict
    heap,         \* reference -> state dict
    threads,      \* live handler threads: thread id -> thread
    alive,        \* TRUE while TCPLikeServer.start is in its loop
    inbox,        \* datagrams waiting in the server socket: [peer, raw]
    got,          \* the datagram recvfrom returned in the latest step, if any
    out,          \* datagrams the Responder sent in its latest step: [to, raw]
    err,          \* exception the Responder's latest step raised, "" for none
    cl,           \* the Initiator's locals and position
    cinbox,       \* datagrams waiting in the Initiator's socket
    cout,         \* datagrams the Initiator sent in its latest step
    wire,         \* every datagram carried between Initiator and Responder
    codec         \* a pack_packet / unpack_packet call on its own: arguments and results

srvVars == << connections, heap, threads, alive, inbox, got, out, err >>

cliVars == << cl, cinbox, cout, wire >>

vars ==
    << connections, heap, threads, alive, inbox, got, out, err, cl, cinbox, cout, wire,
       codec >>

Shared == [conns |-> connections, heap |-> heap]

\* The state dict of a peer that has a table entry.
Conn(p) == heap[connections[p]]

\* ------------------------------------------------------------------------
\* Bounds and the datagrams the substrate is given to deliver
\* ------------------------------------------------------------------------

\* Payloads of 0 .. MaxPayload bytes are delivered.
MaxPayload == 2

\* A connection whose expected_seq passed 2^32 + MaxOver gets no more packets.
MaxOver == 2

Peers == {"p1", "p2"}

\* The values random.randint is taken to return in the Responder.
IsnPool == {Num(0, 7), MaxIsn}

\* Initial sequence numbers a peer opens with: an ordinary one and the two
\* largest the 32-bit field can carry.
SynSeqs == {Num(0, 1000), Num(65535, 65534), Num(65535, 65535)}

Prefix(n) == SubSeq(PAYLOAD, 1, n)

AckPool == {Plus(i, 1) : i \in IsnPool} \cup {Num(0, 0)}

DataSeqs == {Num(0, 1001), Num(0, 1002), Num(65535, 65535)}

SynDatagrams ==
    {Wire(x, Num(0, 0), FLAG_SYN, << >>) : x \in SynSeqs}
    \cup {Wire(Num(0, 1000), Num(0, 0), FLAG_SYN + FLAG_FIN, << >>),
          Wire(Num(0, 1000), Num(0, 0), FLAG_SYN + FLAG_ACK, << >>)}

AckDatagrams == {Wire(Num(0, 1001), a, FLAG_ACK, << >>) : a \in AckPool}

DataDatagrams ==
    {Wire(x, Num(0, 8), FLAG_PSH, Prefix(n)) : x \in DataSeqs, n \in 0..MaxPayload}
    \cup {Wire(x, Num(0, 8), 0, Prefix(1)) : x \in DataSeqs}
    \cup {Wire(Num(0, 1001), Num(0, 8), FLAG_PSH + FLAG_FIN, Prefix(1)),
          Wire(Num(0, 1001), Num(0, 8), FLAG_PSH + FLAG_ACK, Prefix(1))}

FinDatagrams ==
    {Wire(Num(0, 1001), Num(0, 8), f, << >>) : f \in {FLAG_FIN, FLAG_FIN + FLAG_ACK, 0}}

\* Datagrams no pack_packet produced: one byte short of the minimum, a
\* flipped checksum byte, a payload_length larger than the bytes that follow,
\* and a valid packet with two more bytes behind its checksum.
BadDatagrams ==
    LET good == Wire(Num(0, 1001), Num(0, 8), FLAG_PSH, Prefix(1))
        syn == Wire(Num(0, 1000), Num(0, 0), FLAG_SYN, << >>)
    IN  { SubSeq(syn, 1, HDR_SIZE + 1),
          [syn EXCEPT ![HDR_SIZE + 2] = (syn[HDR_SIZE + 2] + 1) % 256],
          [syn EXCEPT ![HDR_SIZE] = 1],
          SubSeq(good, 1, HDR_SIZE + 2),
          good \o << 0, 0 >> }

Datagrams ==
    SynDatagrams \cup AckDatagrams \cup DataDatagrams \cup FinDatagrams \cup BadDatagrams

\* The second peer is there to show that one peer's packets leave another's
\* entry alone: it opens, completes the handshake, sends a byte and closes.
FewDatagrams ==
    { Wire(Num(0, 1000), Num(0, 0), FLAG_SYN, << >>),
      Wire(Num(0, 1001), Num(0, 8), FLAG_ACK, << >>),
      Wire(Num(0, 1001), Num(0, 8), FLAG_PSH, Prefix(1)),
      Wire(Num(0, 1001), Num(0, 8), FLAG_FIN, << >>) }

DatagramsOf(p) == IF p = "p1" THEN Datagrams ELSE FewDatagrams

WithinCap == \A p \in DOMAIN connections : Less(Conn(p).expected_seq, Num(65536, MaxOver))

\* ------------------------------------------------------------------------
\* Initial state
\* ------------------------------------------------------------------------

Init ==
    /\ connections = EmptyMap
    /\ heap = EmptyMap
    /\ threads = EmptyMap
    /\ alive = TRUE
    /\ inbox = << >>
    /\ got = << >>
    /\ out = << >>
    /\ err = ""
    /\ cl = ClientIdle
    /\ cinbox = << >>
    /\ cout = << >>
    /\ wire = << >>
    /\ codec = << >>

\* ------------------------------------------------------------------------
\* The Responder with every packet handled to completion before the next
\* is received
\* ------------------------------------------------------------------------

\* The substrate hands the server socket a datagram from some peer.
SubstrateDeliver ==
    /\ alive
    /\ inbox = << >>
    /\ WithinCap
    /\ \E p \in Peers : \E raw \in DatagramsOf(p) :
          inbox' = << [peer |-> p, raw |-> raw] >>
    /\ got' = << >>
    /\ out' = << >>
    /\ err' = ""
    /\ UNCHANGED << connections, heap, threads, alive, cl, cinbox, cout, wire, codec >>

IsnChoices(pkt) == IF HasFlag(pkt, FLAG_SYN) THEN IsnPool ELSE {Num(0, 0)}

\* Lines 57-62 with the handler run to its end: recvfrom, unpack_packet, then
\* _handle_packet.  A struct.error out of unpack_packet leaves the loop.
ServeCore ==
    /\ alive
    /\ inbox # << >>
    /\ threads = EmptyMap
    /\ LET d == Head(inbox)
           u == unpack_packet(d.raw)
       IN  /\ inbox' = Tail(inbox)
           /\ got' = << d >>
           /\ IF u.tag = "struct.error"
              THEN /\ alive' = FALSE
                   /\ err' = "struct.error"
                   /\ out' = << >>
                   /\ UNCHANGED << connections, heap >>
              ELSE IF u.tag = "None"
              THEN /\ out' = << >>
                   /\ err' = ""
                   /\ UNCHANGED << connections, heap, alive >>
              ELSE \E isn \in IsnChoices(u.pkt) :
                     LET r == RunHandler(Shared, Thread(d.peer, u.pkt), isn, << >>)
                         S == Collect(r.S, {})
                     IN  /\ connections' = S.conns
                         /\ heap' = S.heap
                         /\ out' = r.out
                         /\ err' = r.err
                         /\ UNCHANGED alive
    /\ UNCHANGED << threads, codec >>

ServeOne == ServeCore /\ UNCHANGED cliVars

NextSeq == SubstrateDeliver \/ ServeOne

SpecSeq == Init /\ [][NextSeq]_vars

\* ------------------------------------------------------------------------
\* The Responder as written: one handler thread per decoded packet, the
\* threads' steps interleaved at will
\* ------------------------------------------------------------------------

\* Datagrams waiting in the server socket at the start.
MaxBurst == 4

\* Handler threads alive at the same time.
MaxThreads == 2

\* One peer's handshake, a one-byte payload, a FIN, and a SYN whose seq + 1
\* no longer fits 32 bits.
BurstDatagrams ==
    { Wire(Num(0, 1000), Num(0, 0), FLAG_SYN, << >>),
      Wire(Num(0, 1001), Num(0, 8), FLAG_ACK, << >>),
      Wire(Num(0, 1001), Num(0, 8), FLAG_PSH, Prefix(1)),
      Wire(Num(0, 1001), Num(0, 8), FLAG_FIN, << >>),
      Wire(Num(65535, 65535), Num(0, 0), FLAG_SYN, << >>) }

InitConc ==
    /\ connections = EmptyMap
    /\ heap = EmptyMap
    /\ threads = EmptyMap
    /\ alive = TRUE
    /\ inbox \in [1..MaxBurst -> {[peer |-> "p1", raw |-> r] : r \in BurstDatagrams}]
    /\ got = << >>
    /\ out = << >>
    /\ err = ""
    /\ cl = ClientIdle
    /\ cinbox = << >>
    /\ cout = << >>
    /\ wire = << >>
    /\ codec = << >>

NewTid == CHOOSE i \in 1..(Cardinality(DOMAIN threads) + 1) : i \notin DOMAIN threads

\* Lines 57-62: recvfrom, unpack_packet, and a thread started on the packet.
Receive ==
    /\ alive
    /\ inbox # << >>
    /\ Cardinality(DOMAIN threads) < MaxThreads
    /\ LET d == Head(inbox)
           u == unpack_packet(d.raw)
       IN  /\ inbox' = Tail(inbox)
           /\ got' = << d >>
           /\ out' = << >>
           /\ alive' = (u.tag # "struct.error")
           /\ err' = IF u.tag = "struct.error" THEN "struct.error" ELSE ""
           /\ threads' = IF u.tag = "pkt" THEN Put(threads, NewTid, Thread(d.peer, u.pkt))
                         ELSE threads
    /\ UNCHANGED << connections, heap, cl, cinbox, cout, wire, codec >>

ThreadRefs(ts) == {ts[i].st : i \in DOMAIN ts}

\* Every handler other than tid has now seen another handler run.
MarkRaced(ts, tid) ==
    [i \in DOMAIN ts |-> IF i = tid THEN ts[i] ELSE [ts[i] EXCEPT !.raced = TRUE]]

\* One step of one handler thread.
ThreadStep(tid) ==
    /\ \E isn \in (IF threads[tid].pc = "L66" THEN IsnChoices(threads[tid].pkt)
                   ELSE {Num(0, 0)}) :
         LET r == HandlerStep(Shared, threads[tid], isn)
             ts == MarkRaced(IF r.t.pc = "done" THEN Del(threads, tid)
                             ELSE Put(threads, tid, r.t), tid)
             S == Collect(r.S, ThreadRefs(ts))
         IN  /\ threads' = ts
             /\ connections' = S.conns
             /\ heap' = S.heap
             /\ out' = r.out
             /\ err' = r.err
    /\ got' = << >>
    /\ UNCHANGED << alive, inbox, cl, cinbox, cout, wire, codec >>

NextConc == Receive \/ \E tid \in DOMAIN threads : ThreadStep(tid)

SpecConc == InitConc /\ [][NextConc]_vars

\* The same threads on a burst made of one peer's handshake and copies of one
\* data packet.
RaceDatagrams ==
    { Wire(Num(0, 1000), Num(0, 0), FLAG_SYN, << >>),
      Wire(Num(0, 1001), Num(0, 8), FLAG_ACK, << >>),
      Wire(Num(0, 1001), Num(0, 8), FLAG_PSH, Prefix(1)) }

InitRace ==
    /\ connections = EmptyMap
    /\ heap = EmptyMap
    /\ threads = EmptyMap
    /\ alive = TRUE
    /\ inbox \in [1..MaxBurst -> {[peer |-> "p1", raw |-> r] : r \in RaceDatagrams}]
    /\ got = << >>
    /\ out = << >>
    /\ err = ""
    /\ cl = ClientIdle
    /\ cinbox = << >>
    /\ cout = << >>
    /\ wire = << >>
    /\ codec = << >>

SpecRace == InitRace /\ [][NextConc]_vars

\* ------------------------------------------------------------------------
\* The Initiator alone, over a substrate that may hand it any datagram of
\* Replies or none at all
\* ------------------------------------------------------------------------

\* The values random.randint is taken to return in the Initiator.
ClientIsns == {Num(0, 0), Num(0, 1000), Num(0, 65535), MaxIsn}

\* Replies of every kind: SYN|ACKs (one whose seq + 1 no longer fits 32
\* bits), a bare SYN, ACKs with the acknowledgment the data step waits for and
\* with another one, FINs, a packet with no flag the Initiator looks for, and
\* datagrams no pack_packet produced (as in BadDatagrams).
Replies ==
    LET x == Num(0, 1000)
        s == Num(0, 7)
        synack == Wire(s, Plus(x, 1), FLAG_SYN + FLAG_ACK, << >>)
    IN  { synack,
          Wire(Num(65535, 65535), Plus(x, 1), FLAG_SYN + FLAG_ACK, << >>),
          Wire(s, Num(0, 0), FLAG_SYN, << >>),
          Wire(s, Plus(x, 1), FLAG_ACK, << >>),
          Wire(s, Plus(x, 2 + Len(PAYLOAD)), FLAG_FIN, << >>),
          Wire(Num(65535, 65535), Plus(x, 2 + Len(PAYLOAD)), FLAG_FIN, << >>),
          Wire(s, Num(0, 0), FLAG_PSH, << >>),
          SubSeq(synack, 1, HDR_SIZE + 1),
          [synack EXCEPT ![HDR_SIZE + 2] = (synack[HDR_SIZE + 2] + 1) % 256],
          [synack EXCEPT ![HDR_SIZE] = 1] }
    \cup {Wire(s, Plus(i, 1 + Len(PAYLOAD)), FLAG_ACK, << >>) : i \in ClientIsns}

\* The Initiator takes a step; its datagrams reach the Responder's socket
\* only when toServer.
ClientDoes(res, toServer) ==
    /\ cl' = res.c
    /\ cout' = res.out
    /\ IF toServer
       THEN /\ inbox' = inbox \o [i \in 1..Len(res.out) |-> [peer |-> "p1", raw |-> res.out[i]]]
            /\ wire' = wire \o [i \in 1..Len(res.out) |-> [from |-> "c", raw |-> res.out[i]]]
       ELSE UNCHANGED << inbox, wire >>
    /\ UNCHANGED << connections, heap, threads, alive, got, out, err, cinbox, codec >>

SawStart == cl.pc = "main" /\ \E isn \in ClientIsns : ClientDoes(MainStart(cl, isn), FALSE)

SawSend == cl.pc = "L49" /\ ClientDoes(SawLoop(cl), FALSE)

SawRecv == cl.pc = "L53" /\ \E raw \in Replies : ClientDoes(SawOnDatagram(cl, raw), FALSE)

SawTimeout == cl.pc = "L53" /\ ClientDoes(SawOnTimeout(cl), FALSE)

SawReturn == cl.pc = "ret" /\ ClientDoes(AfterSaw(cl), FALSE)

FinRecv == cl.pc = "L99" /\ \E raw \in Replies : ClientDoes(FinWaitOnDatagram(cl, raw), FALSE)

FinTimeout == cl.pc = "L99" /\ ClientDoes(FinWaitOnTimeout(cl), FALSE)

NextSaw ==
    SawStart \/ SawSend \/ SawRecv \/ SawTimeout \/ SawReturn \/ FinRecv \/ FinTimeout

SpecSaw == Init /\ [][NextSaw]_vars

\* ------------------------------------------------------------------------
\* One Initiator run against the Responder over a substrate that loses,
\* duplicates and reorders nothing; the Responder handles each packet to
\* completion in arrival order and every reply arrives before a timeout
\* ------------------------------------------------------------------------

RunStart == cl.pc = "main" /\ \E isn \in ClientIsns : ClientDoes(MainStart(cl, isn), TRUE)

RunSend == cl.pc = "L49" /\ ClientDoes(SawLoop(cl), TRUE)

\* recvfrom returns the oldest datagram in the Initiator's socket.
ClientTakes(res) ==
    /\ cl' = res.c
    /\ cout' = res.out
    /\ cinbox' = Tail(cinbox)
    /\ inbox' = inbox \o [i \in 1..Len(res.out) |-> [peer |-> "p1", raw |-> res.out[i]]]
    /\ wire' = wire \o [i \in 1..Len(res.out) |-> [from |-> "c", raw |-> res.out[i]]]
    /\ UNCHANGED << connections, heap, threads, alive, got, out, err, codec >>

RunRecv == cl.pc = "L53" /\ cinbox # << >> /\ ClientTakes(SawOnDatagram(cl, Head(cinbox)))

RunReturn == cl.pc = "ret" /\ ClientDoes(AfterSaw(cl), TRUE)

RunFinRecv == cl.pc = "L99" /\ cinbox # << >> /\ ClientTakes(FinWaitOnDatagram(cl, Head(cinbox)))

\* The Responder handles the oldest datagram; what it sends to the Initiator
\* arrives in the order sent.
RunServe ==
    /\ ServeCore
    /\ cinbox' = cinbox \o [i \in 1..Len(out') |-> out'[i].raw]
    /\ wire' = wire \o [i \in 1..Len(out') |-> [from |-> "s", raw |-> out'[i].raw]]
    /\ UNCHANGED << cl, cout >>

NextRun == RunStart \/ RunSend \/ RunRecv \/ RunReturn \/ RunFinRecv \/ RunServe

SpecRun == Init /\ [][NextRun]_vars

\* The value random.randint is taken to return in the Initiator of the runs
\* over a delaying substrate.
NetIsns == {Num(0, 1000)}

\* ------------------------------------------------------------------------
\* The same run over a substrate that delays: it loses, duplicates and
\* reorders nothing, but a datagram may still be on its way when the
\* Initiator's timeout expires
\* ------------------------------------------------------------------------

\* The Initiator takes a step, consuming the oldest datagram in its socket
\* when takes; what it sends joins the Responder's socket.  No log is kept.
NetClientDoes(res, takes) ==
    /\ cl' = res.c
    /\ cout' = res.out
    /\ cinbox' = IF takes THEN Tail(cinbox) ELSE cinbox
    /\ inbox' = inbox \o [i \in 1..Len(res.out) |-> [peer |-> "p1", raw |-> res.out[i]]]
    /\ UNCHANGED << connections, heap, threads, alive, got, out, err, wire, codec >>

NetStart == cl.pc = "main" /\ \E isn \in NetIsns : NetClientDoes(MainStart(cl, isn), FALSE)

NetSend == cl.pc = "L49" /\ NetClientDoes(SawLoop(cl), FALSE)

NetRecv ==
    cl.pc = "L53" /\ cinbox # << >> /\ NetClientDoes(SawOnDatagram(cl, Head(cinbox)), TRUE)

\* Lines 65-67: recvfrom times out, no datagram having arrived yet.
NetTimeout == cl.pc = "L53" /\ cinbox = << >> /\ NetClientDoes(SawOnTimeout(cl), FALSE)

NetReturn == cl.pc = "ret" /\ NetClientDoes(AfterSaw(cl), FALSE)

NetFinRecv ==
    cl.pc = "L99" /\ cinbox # << >>
    /\ NetClientDoes(FinWaitOnDatagram(cl, Head(cinbox)), TRUE)

\* Lines 105-106: the same while waiting for the Responder's FIN.
NetFinTimeout == cl.pc = "L99" /\ cinbox = << >> /\ NetClientDoes(FinWaitOnTimeout(cl), FALSE)

\* The Responder handles the oldest datagram; its replies join the
\* Initiator's socket in the order sent.
NetServe ==
    /\ ServeCore
    /\ cinbox' = cinbox \o [i \in 1..Len(out') |-> out'[i].raw]
    /\ UNCHANGED << cl, cout, wire >>

NextNet ==
    \/ NetStart
    \/ NetSend
    \/ NetRecv
    \/ NetTimeout
    \/ NetReturn
    \/ NetFinRecv
    \/ NetFinTimeout
    \/ NetServe

SpecNet == Init /\ [][NextNet]_vars

\* ------------------------------------------------------------------------
\* The same run over a substrate that delivers in order and in time, and may
\* lose one datagram: the Initiator's handshake ACK
\* ------------------------------------------------------------------------

\* The datagram is the ACK main sends at line 82.
IsHandshakeAck(raw) ==
    /\ unpack_packet(raw).tag = "pkt"
    /\ unpack_packet(raw).pkt.flags = FLAG_ACK
    /\ unpack_packet(raw).pkt.seq = Plus(cl.client_isn, 1)

\* The substrate drops the handshake ACK instead of delivering it.
LoseAck ==
    /\ inbox # << >>
    /\ IsHandshakeAck(Head(inbox).raw)
    /\ inbox' = Tail(inbox)
    /\ UNCHANGED << connections, heap, threads, alive, got, out, err, cl, cinbox, cout,
                    wire, codec >>

\* Lines 65-67: recvfrom times out with no datagram on its way in either
\* direction.
QuietTimeout ==
    /\ cl.pc = "L53"
    /\ cinbox = << >>
    /\ inbox = << >>
    /\ ClientDoes(SawOnTimeout(cl), TRUE)

NextLoss ==
    \/ RunStart
    \/ RunSend
    \/ RunRecv
    \/ RunReturn
    \/ RunFinRecv
    \/ RunServe
    \/ LoseAck
    \/ QuietTimeout

SpecLoss == Init /\ [][NextLoss]_vars

\* ------------------------------------------------------------------------
\* pack_packet and unpack_packet on their own: one call of each on arguments
\* drawn at the start
\* ------------------------------------------------------------------------

\* Payloads of 0 .. MaxCodecLen bytes are packed.
MaxCodecLen == 3

CodecBytes == {0, 1, 255}

\* Sequence and acknowledgment numbers: small ones, the largest the field
\* carries, and the first one it does not.
CodecNums == {Num(0, 0), Num(0, 1000), Num(1, 0), Num(65535, 65535), Num(65536, 0)}

CodecAcks == {Num(0, 0), Num(65535, 65535), Num(65536, 0)}

CodecFlags == {0, FLAG_SYN + FLAG_ACK, FLAG_PSH, 255, 256}

CodecWnds == {0, 1, 65535, 65536}

CodecPayloads == UNION {[1..n -> CodecBytes] : n \in 0..MaxCodecLen}

CodecArgs ==
    [seq : CodecNums, ack : CodecAcks, flags : CodecFlags, wnd : CodecWnds,
     payload : CodecPayloads]

InitCodec ==
    /\ connections = EmptyMap
    /\ heap = EmptyMap
    /\ threads = EmptyMap
    /\ alive = TRUE
    /\ inbox = << >>
    /\ got = << >>
    /\ out = << >>
    /\ err = ""
    /\ cl = ClientIdle
    /\ cinbox = << >>
    /\ cout = << >>
    /\ wire = << >>
    /\ codec \in {[stage |-> "args", args |-> a, packed |-> [tag |-> "", raw |-> << >>],
                   res |-> [tag |-> "", pkt |-> NoPkt]] : a \in CodecArgs}

\* pack_packet(seq, ack, flags, wnd, payload).
CodecPack ==
    /\ codec.stage = "args"
    /\ codec' = [codec EXCEPT !.stage = "packed",
                              !.packed = pack_packet(codec.args.seq, codec.args.ack,
                                                     codec.args.flags, codec.args.wnd,
                                                     codec.args.payload)]
    /\ UNCHANGED << connections, heap, threads, alive, inbox, got, out, err, cl, cinbox,
                    cout, wire >>

\* unpack_packet on the bytes pack_packet returned.
CodecUnpack ==
    /\ codec.stage = "packed"
    /\ codec.packed.tag = "bytes"
    /\ codec' = [codec EXCEPT !.stage = "unpacked", !.res = unpack_packet(codec.packed.raw)]
    /\ UNCHANGED << connections, heap, threads, alive, inbox, got, out, err, cl, cinbox,
                    cout, wire >>

NextCodec == CodecPack \/ CodecUnpack

SpecCodec == InitCodec /\ [][NextCodec]_vars

\* ------------------------------------------------------------------------
\* Properties of the Responder handling one packet at a time (SpecSeq)
\* ------------------------------------------------------------------------

\* A step in which the receive loop takes the waiting datagram.
ServeStep == inbox # << >> /\ got' = << Head(inbox) >>

Arriving == Head(inbox)

ArrivingPkt == unpack_packet(Head(inbox).raw).pkt

\* The step handles a decoded packet that does not carry SYN.
HandlesNonSyn ==
    /\ ServeStep
    /\ unpack_packet(Arriving.raw).tag = "pkt"
    /\ ~HasFlag(ArrivingPkt, FLAG_SYN)

Established(p) == p \in DOMAIN connections /\ Conn(p).established

SameConn(p) ==
    p \in DOMAIN connections /\ p \in DOMAIN connections'
    /\ connections'[p] = connections[p]

TableUnchanged == connections' = connections /\ heap' = heap

\* The state dict of peer p after the step.
ConnAfter(p) == heap'[connections'[p]]

\* The packet the latest step received and decoded.
GotPkt == unpack_packet(got[1].raw).pkt

GotNonSyn ==
    /\ got # << >>
    /\ unpack_packet(got[1].raw).tag = "pkt"
    /\ ~HasFlag(GotPkt, FLAG_SYN)

\* The one datagram the latest step sent, decoded.
OutPkt == unpack_packet(out[1].raw).pkt

\* The step sent exactly one well-formed packet to p with these fields.
SentOne(o, p, seq, ack, flags) ==
    /\ Len(o) = 1
    /\ o[1].to = p
    /\ unpack_packet(o[1].raw).tag = "pkt"
    /\ unpack_packet(o[1].raw).pkt =
         [seq |-> seq, ack |-> ack, flags |-> flags, wnd |-> WND, payload |-> << >>]

\* C2: with packets handled one at a time, expected_seq of an established
\* connection never decreases while the connection lives; a data packet whose
\* seq equals expected_seq advances it by exactly the payload's length, and a
\* data packet with any other seq leaves it as it was.
C2_SequenceMonotone ==
    [][ \A p \in Peers :
          /\ (Established(p) /\ SameConn(p))
                => Leq(Conn(p).expected_seq, ConnAfter(p).expected_seq)
          /\ (HandlesNonSyn /\ Arriving.peer = p /\ IsData(ArrivingPkt) /\ Established(p))
                => /\ SameConn(p)
                   /\ ConnAfter(p).expected_seq =
                        IF ArrivingPkt.seq = Conn(p).expected_seq
                        THEN Plus(Conn(p).expected_seq, Len(ArrivingPkt.payload))
                        ELSE Conn(p).expected_seq
      ]_vars

\* A non-empty in-order data packet has just been accepted: expected_seq
\* stands payload-length past the packet's seq and the ACK for it went out.
C2_Witness ==
    /\ GotNonSyn
    /\ IsData(GotPkt)
    /\ Len(GotPkt.payload) = MaxPayload
    /\ Established(got[1].peer)
    /\ GotPkt.seq = Plus(Conn(got[1].peer).peer_seq, 1)
    /\ Conn(got[1].peer).expected_seq = Plus(GotPkt.seq, MaxPayload)
    /\ SentOne(out, got[1].peer, Conn(got[1].peer).server_seq,
               Conn(got[1].peer).expected_seq, FLAG_ACK)

\* C3 (as claimed): handling a FIN for an established connection removes the
\* peer's entry, and a later non-SYN packet from a peer without an entry gets
\* no reply and changes nothing.
C3_Teardown ==
    [][ /\ (HandlesNonSyn /\ ~IsData(ArrivingPkt) /\ HasFlag(ArrivingPkt, FLAG_FIN)
              /\ Established(Arriving.peer))
             => Arriving.peer \notin DOMAIN connections'
        /\ (HandlesNonSyn /\ Arriving.peer \notin DOMAIN connections)
             => (out' = << >> /\ TableUnchanged)
      ]_vars

\* C5 (as claimed): unpack_packet yields a packet or None on every datagram;
\* a rejected datagram causes no reply and no change, and the receive loop
\* is still running afterwards.
C5_BadDatagramHarmless ==
    [][ ServeStep =>
          /\ unpack_packet(Arriving.raw).tag \in {"pkt", "None"}
          /\ unpack_packet(Arriving.raw).tag = "None" => (out' = << >> /\ TableUnchanged)
          /\ alive'
      ]_vars

\* C6 (as claimed): every delivery of a data packet whose seq differs from
\* expected_seq of the established connection is answered by one ACK with
\* seq = server_seq and ack = the unchanged expected_seq, and changes nothing
\* (so N deliveries give N identical replies).
C6_IdempotentReAck ==
    [][ (HandlesNonSyn /\ IsData(ArrivingPkt) /\ Established(Arriving.peer)
           /\ ArrivingPkt.seq # Conn(Arriving.peer).expected_seq)
          => /\ SentOne(out', Arriving.peer, Conn(Arriving.peer).server_seq,
                        Conn(Arriving.peer).expected_seq, FLAG_ACK)
             /\ TableUnchanged
      ]_vars

\* C7: a packet without SYN from a peer that has no table entry is dropped:
\* the handler returns without sending, and no entry is created or changed.
C7_UnknownPeerDropped ==
    [][ (HandlesNonSyn /\ Arriving.peer \notin DOMAIN connections)
          => (out' = << >> /\ err' = "" /\ TableUnchanged)
      ]_vars

\* A non-SYN packet from a peer without an entry was just dropped while the
\* other peer's established connection stayed in the table.
C7_Witness ==
    /\ GotNonSyn
    /\ got[1].peer \notin DOMAIN connections
    /\ out = << >>
    /\ err = ""
    /\ \E q \in Peers \ {got[1].peer} : Established(q)

\* The entry of peer p is there and not established (SYN_RECEIVED).
SynReceived(p) == p \in DOMAIN connections /\ ~Conn(p).established

\* The step handles a decoded packet from p that carries ACK with an
\* acknowledgment other than server_seq + 1 while p is in SYN_RECEIVED.
HandlesWrongAck(p) ==
    /\ ServeStep
    /\ Arriving.peer = p
    /\ unpack_packet(Arriving.raw).tag = "pkt"
    /\ HasFlag(ArrivingPkt, FLAG_ACK)
    /\ SynReceived(p)
    /\ ArrivingPkt.ack # Plus(Conn(p).server_seq, 1)

\* The step takes p's entry from SYN_RECEIVED to ESTABLISHED.
Establishes(p) ==
    /\ SynReceived(p)
    /\ p \in DOMAIN connections'
    /\ ConnAfter(p).established

\* Only a packet with ACK and ack = server_seq + 1 establishes.
EstablishedOnlyByAck(p) ==
    Establishes(p)
      => /\ ServeStep
         /\ Arriving.peer = p
         /\ unpack_packet(Arriving.raw).tag = "pkt"
         /\ HasFlag(ArrivingPkt, FLAG_ACK)
         /\ ArrivingPkt.ack = Plus(Conn(p).server_seq, 1)
         /\ SameConn(p)

\* The step leaves p's entry as it was and sends nothing.
Ignored(p) == SameConn(p) /\ ConnAfter(p) = Conn(p) /\ out' = << >>

\* C12 (as claimed): an entry in SYN_RECEIVED becomes ESTABLISHED only by a
\* packet with the ACK flag whose ack is server_seq + 1, and every packet with
\* the ACK flag and another ack leaves the entry as it was, with no reply.
C12_AckOnly ==
    [][ \A p \in Peers :
          /\ EstablishedOnlyByAck(p)
          /\ HandlesWrongAck(p) => Ignored(p)
      ]_vars

\* C12 (amended): the same, for packets with the ACK flag that do not carry
\* SYN as well; a packet with SYN is handled as a SYN whatever else it carries.
C12_AckWithoutSyn ==
    [][ \A p \in Peers :
          /\ EstablishedOnlyByAck(p)
          /\ (HandlesWrongAck(p) /\ ~HasFlag(ArrivingPkt, FLAG_SYN)) => Ignored(p)
      ]_vars

\* An ACK with the wrong acknowledgment was just handled for a peer in
\* SYN_RECEIVED: nothing was sent and the entry is still not established.
C12_Witness ==
    /\ GotNonSyn
    /\ HasFlag(GotPkt, FLAG_ACK)
    /\ SynReceived(got[1].peer)
    /\ GotPkt.ack # Plus(Conn(got[1].peer).server_seq, 1)
    /\ out = << >>
    /\ err = ""

\* Every state dict alive belongs to exactly one peer's entry.
OnePerPeer ==
    /\ \A p, q \in DOMAIN connections : connections[p] = connections[q] => p = q
    /\ DOMAIN heap = {connections[p] : p \in DOMAIN connections}

\* The step handles a decoded packet from p that carries SYN.
HandlesSyn(p) ==
    /\ ServeStep
    /\ Arriving.peer = p
    /\ unpack_packet(Arriving.raw).tag = "pkt"
    /\ HasFlag(ArrivingPkt, FLAG_SYN)

\* C13: the table never holds more than one state dict per peer; a SYN from
\* a peer that has an entry puts a new dict in its place that is not
\* established, has the server_seq just drawn (the one the SYN|ACK carries)
\* and expected_seq = the SYN's seq + 1, and no other peer's entry changes.
C13_SynReplaces ==
    [][ /\ OnePerPeer'
        /\ \A p \in Peers :
              (HandlesSyn(p) /\ p \in DOMAIN connections)
                => /\ p \in DOMAIN connections'
                   /\ connections'[p] # connections[p]
                   /\ ConnAfter(p).peer_seq = ArrivingPkt.seq
                   /\ ConnAfter(p).expected_seq = Plus(ArrivingPkt.seq, 1)
                   /\ ~ConnAfter(p).established
                   /\ ConnAfter(p).server_seq \in IsnPool
                   /\ out' # << >>
                        => SentOne(out', p, ConnAfter(p).server_seq,
                                   Plus(ArrivingPkt.seq, 1), FLAG_SYN + FLAG_ACK)
                   /\ \A q \in Peers \ {p} :
                        IF q \in DOMAIN connections
                        THEN SameConn(q) /\ ConnAfter(q) = Conn(q)
                        ELSE q \notin DOMAIN connections'
      ]_vars

\* A SYN was just handled for a peer that had an entry (its new dict has a
\* reference beyond the number of dicts alive, so an older one was dropped)
\* while the other peer's established entry stayed.
C13_Witness ==
    /\ got # << >>
    /\ unpack_packet(got[1].raw).tag = "pkt"
    /\ HasFlag(GotPkt, FLAG_SYN)
    /\ SynReceived(got[1].peer)
    /\ connections[got[1].peer] > Cardinality(DOMAIN heap)
    /\ Conn(got[1].peer).expected_seq = Plus(GotPkt.seq, 1)
    /\ SentOne(out, got[1].peer, Conn(got[1].peer).server_seq,
               Plus(GotPkt.seq, 1), FLAG_SYN + FLAG_ACK)
    /\ \E q \in Peers \ {got[1].peer} : Established(q)

\* C20: a packet without SYN handled while the peer's entry is in
\* SYN_RECEIVED (a data packet or a FIN among them) leaves the entry in the
\* table with expected_seq, server_seq and peer_seq as they were and is not
\* answered; a packet without SYN is answered, and expected_seq of an entry
\* changes, only where the entry was ESTABLISHED.
C20_OnlyWhenEstablished ==
    [][ \A p \in Peers :
          /\ (HandlesNonSyn /\ Arriving.peer = p /\ SynReceived(p))
               => /\ SameConn(p)
                  /\ ConnAfter(p).expected_seq = Conn(p).expected_seq
                  /\ ConnAfter(p).server_seq = Conn(p).server_seq
                  /\ ConnAfter(p).peer_seq = Conn(p).peer_seq
                  /\ out' = << >>
                  /\ err' = ""
          /\ (HandlesNonSyn /\ Arriving.peer = p /\ out' # << >>) => Established(p)
          /\ (SameConn(p) /\ ConnAfter(p).expected_seq # Conn(p).expected_seq)
               => Established(p)
      ]_vars

\* A data packet whose seq is the expected one was just handled for a peer
\* still in SYN_RECEIVED: no reply, expected_seq where the SYN put it.
C20_Witness ==
    /\ GotNonSyn
    /\ IsData(GotPkt)
    /\ ~HasFlag(GotPkt, FLAG_ACK)
    /\ Len(GotPkt.payload) > 0
    /\ SynReceived(got[1].peer)
    /\ GotPkt.seq = Conn(got[1].peer).expected_seq
    /\ Conn(got[1].peer).expected_seq = Plus(Conn(got[1].peer).peer_seq, 1)
    /\ out = << >>
    /\ err = ""

\* ------------------------------------------------------------------------
\* Properties of the Responder's interleaved handler threads (SpecConc)
\* ------------------------------------------------------------------------

\* Thread tid takes the step at source line pc and ends with it.
EndsAt(tid, pc) ==
    tid \in DOMAIN threads /\ threads[tid].pc = pc /\ tid \notin DOMAIN threads'

\* The entry a SYN handler stored is in the table while its SYN|ACK has not
\* been sent yet.
VisibleBeforeSynAck(tid) ==
    /\ threads[tid].pc = "L76"
    /\ threads[tid].peer \in DOMAIN connections
    /\ connections[threads[tid].peer] = threads[tid].st

\* C1 (as claimed): a handler that took a SYN(seq=X) sends exactly one
\* SYN|ACK with ack = X+1 and seq = the server_seq it stored, and the entry it
\* creates is not in the table before that SYN|ACK has been sent.
C1_SynAckThenVisible ==
    [][ \A tid \in DOMAIN threads :
          /\ ~VisibleBeforeSynAck(tid)
          /\ EndsAt(tid, "L76")
               => SentOne(out', threads[tid].peer, heap[threads[tid].st].server_seq,
                          Plus(threads[tid].pkt.seq, 1), FLAG_SYN + FLAG_ACK)
      ]_vars

\* C10 (as claimed): whatever the interleaving, a handler that reaches
\* "del self.connections[peer]" finds the entry still there.
C10_RemovedOnce ==
    [][ \A tid \in DOMAIN threads :
          EndsAt(tid, "L115") => threads[tid].peer \in DOMAIN connections
      ]_vars

\* C14, one at a time: a data handler that ran from its first line to its
\* last with no other handler stepping in between ends as handling one packet
\* at a time does: having accepted, with expected_seq = the packet's seq +
\* the payload's length; having re-ACKed, with expected_seq other than the
\* packet's seq.  So expected_seq = seq + twice the length at the end of a
\* data handler is no outcome of one-at-a-time handling.
C14_AloneIsSequential ==
    [][ \A tid \in DOMAIN threads :
          ~threads[tid].raced =>
            /\ EndsAt(tid, "L98")
                 => heap[threads[tid].st].expected_seq =
                      Plus(threads[tid].pkt.seq, Len(threads[tid].pkt.payload))
            /\ EndsAt(tid, "L102")
                 => heap[threads[tid].st].expected_seq # threads[tid].pkt.seq
      ]_vars

\* C14, interleaved: two handlers of the same data packet both passed the
\* test of line 94 and both added the payload's length, so expected_seq
\* stands twice the length past the packet's seq.
C14_Witness ==
    \E t1, t2 \in DOMAIN threads :
        /\ t1 # t2
        /\ threads[t1].pc = "L98"
        /\ threads[t2].pc = "L98"
        /\ threads[t1].pkt = threads[t2].pkt
        /\ threads[t1].st = threads[t2].st
        /\ Len(threads[t1].pkt.payload) > 0
        /\ heap[threads[t1].st].established
        /\ heap[threads[t1].st].expected_seq =
             Plus(threads[t1].pkt.seq, 2 * Len(threads[t1].pkt.payload))

\* ------------------------------------------------------------------------
\* Properties of the codec (SpecCodec)
\* ------------------------------------------------------------------------

\* The arguments fit the widths of the header's fields.
WithinWidths(a) ==
    /\ FitsU32(a.seq)
    /\ FitsU32(a.ack)
    /\ a.flags <= 255
    /\ a.wnd <= 65535
    /\ Len(a.payload) <= 65535

\* C11: for arguments within the field widths pack_packet returns bytes, and
\* unpack_packet of those bytes returns a packet with exactly the five values
\* packed, its payload as long as the header's payload_length field says.
C11_RoundTrip ==
    /\ (codec.stage # "args" /\ WithinWidths(codec.args))
          => /\ codec.packed.tag = "bytes"
             /\ Len(codec.packed.raw) = HDR_SIZE + Len(codec.args.payload) + 2
    /\ codec.stage = "unpacked"
          => /\ codec.res.tag = "pkt"
             /\ codec.res.pkt = [seq |-> codec.args.seq, ack |-> codec.args.ack,
                                 flags |-> codec.args.flags, wnd |-> codec.args.wnd,
                                 payload |-> codec.args.payload]
             /\ Len(codec.res.pkt.payload) = U16At(codec.packed.raw, 12)

\* The largest sequence number and the longest payload went through
\* pack_packet and unpack_packet and came back.
C11_Witness ==
    /\ codec.stage = "unpacked"
    /\ codec.args.seq = Num(65535, 65535)
    /\ codec.args.flags = 255
    /\ Len(codec.args.payload) = MaxCodecLen
    /\ codec.res.tag = "pkt"
    /\ codec.res.pkt.payload = codec.args.payload
    /\ codec.res.pkt.seq = codec.args.seq

\* ------------------------------------------------------------------------
\* Properties of send_and_wait over an arbitrary substrate (SpecSaw)
\* ------------------------------------------------------------------------

\* The reply passes lines 55-63 of send_and_wait.
Accepted(c, raw) ==
    /\ unpack_packet(raw).tag = "pkt"
    /\ c.xflags = 0 \/ BitAnd(unpack_packet(raw).pkt.flags, c.xflags) # 0
    /\ c.xack = << >> \/ unpack_packet(raw).pkt.ack = c.xack[1]

\* The step is a recvfrom of send_and_wait that returned a datagram.
SawReceives == cl.pc = "L53" /\ cl'.rcv # << >>

\* C8 (as claimed): send_and_wait returns a reply only if it decoded and
\* passed the flag and acknowledgment tests; every received datagram that did
\* not consumes exactly one attempt and is followed by a re-send of the same
\* bytes.
C8_AcceptOrResend ==
    [][ /\ (cl'.pc = "ret" /\ cl'.r # << >>)
             => (cl'.rcv # << >> /\ Accepted(cl', cl'.rcv[1])
                 /\ cl'.r[1] = unpack_packet(cl'.rcv[1]).pkt)
        /\ (SawReceives /\ ~Accepted(cl', cl'.rcv[1]))
             => /\ cl'.attempts = cl.attempts + 1
                /\ cl'.pc = "L49"
                /\ cl'.attempts < MAX_RETRIES
                /\ cl'.pkt = cl.pkt
        /\ (cl.pc = "L49" /\ cl'.pc = "L53") => (cout' = << cl.pkt >> /\ cl'.pkt = cl.pkt)
      ]_vars

\* C9 (as claimed): a send_and_wait call sends at most MAX_RETRIES times and
\* ends by returning: None exactly when all MAX_RETRIES attempts were
\* consumed, otherwise the first accepted reply, with no send after it.
C9_BoundedRetries ==
    /\ cl.sends <= MAX_RETRIES
    /\ cl.attempts <= MAX_RETRIES
    /\ cl.pc = "ret" =>
         /\ cl.r = << >> <=> cl.attempts = MAX_RETRIES
         /\ cl.r = << >> => cl.sends = MAX_RETRIES
         /\ cl.r # << >> =>
              (cl.sends = cl.attempts + 1 /\ cl.rcv # << >> /\ Accepted(cl, cl.rcv[1])
               /\ cl.r[1] = unpack_packet(cl.rcv[1]).pkt)
    /\ ~(cl.pc = "crashed" /\ cl.where = "L53")

\* The step is main going on after a send_and_wait call of the given step
\* returned.
MainAfter(step) == cl.pc = "ret" /\ cl.step = step

\* C15 (as claimed): main goes handshake, data, teardown.  After the SYN
\* step returned None nothing more is sent; after it returned a reply the
\* handshake ACK is sent once and the data step starts; the data step,
\* acknowledged or not, is always followed by the FIN step, whose first act is
\* to send the FIN; and the handshake ACK is sent at no other moment.
C15_StepOrder ==
    [][ /\ (MainAfter("syn") /\ cl.r = << >>) => (cl'.pc = "done" /\ cout' = << >>)
        /\ (MainAfter("syn") /\ cl.r # << >>)
             => /\ cout' = << Wire(Plus(cl.client_isn, 1), Plus(cl.r[1].seq, 1),
                                   FLAG_ACK, << >>) >>
                /\ cl'.step = "data"
                /\ cl'.pc = "L49"
                /\ cl'.pkt = Wire(Plus(cl.client_isn, 1), Plus(cl.r[1].seq, 1),
                                  FLAG_PSH, PAYLOAD)
        /\ cl.step = "data" => cl'.pc \notin {"done", "crashed"}
        /\ MainAfter("data")
             => /\ cout' = << >>
                /\ cl'.step = "fin"
                /\ cl'.pc = "L49"
                /\ cl'.sends = 0
                /\ cl'.pkt = Wire(Plus(cl.client_isn, 1), Plus(cl.server_isn, 1),
                                  FLAG_FIN, << >>)
        /\ (cl.step = "fin" /\ cl.pc = "L49" /\ cl.sends = 0) => cout' = << cl.pkt >>
        /\ (cl.pc \in {"L49", "L53"}) => (cout' = << >> \/ cout' = << cl.pkt >>)
        /\ cl.pc = "done" => (cl'.pc = "done" /\ cout' = << >>)
      ]_vars

\* C16 (as claimed): main leaves the handshake step with a reply only when the
\* reply's flags hold both SYN and ACK.
C16_NeedsSynAndAck ==
    [][ (MainAfter("syn") /\ cl'.step = "data")
          => /\ cl.r # << >>
             /\ HasFlag(cl.r[1], FLAG_SYN)
             /\ HasFlag(cl.r[1], FLAG_ACK)
      ]_vars

\* ------------------------------------------------------------------------
\* Properties of one run over the delaying substrate (SpecNet)
\* ------------------------------------------------------------------------

\* The step is the Responder handling the oldest datagram in its socket.
NetServes == alive /\ inbox # << >> /\ Len(inbox') = Len(inbox) - 1

\* No datagram behind the oldest one in the Responder's socket carries SYN.
NoSynBehind ==
    \A i \in 2..Len(inbox) :
        unpack_packet(inbox[i].raw).tag = "pkt"
          => ~HasFlag(unpack_packet(inbox[i].raw).pkt, FLAG_SYN)

\* C17 (as claimed): the Initiator accepted a SYN|ACK and sent its handshake
\* ACK; when the Responder handles that ACK, all the Initiator's SYNs having
\* been handled before, the peer's entry becomes ESTABLISHED.
C17_AckEstablishes ==
    [][ (/\ NetServes
         /\ IsHandshakeAck(Arriving.raw)
         /\ cl.step \in {"data", "fin"}
         /\ ArrivingPkt.ack = Plus(cl.server_isn, 1)
         /\ NoSynBehind)
          => /\ Arriving.peer \in DOMAIN connections'
             /\ ConnAfter(Arriving.peer).established
      ]_vars

\* C19 (as claimed): a reply the FIN step's send_and_wait returns is the ACK
\* the Responder sent for the FIN: flags ACK alone, its ack one past the
\* expected_seq the FIN met (client_isn + 1 with the payload accepted or
\* not), never the ack of a data ACK.
C19_FinAckIsForFin ==
    (MainAfter("fin") /\ cl.r # << >>)
      => /\ cl.r[1].flags = FLAG_ACK
         /\ cl.r[1].ack \in {Plus(cl.client_isn, 2), Plus(cl.client_isn, 2 + Len(PAYLOAD))}

\* ------------------------------------------------------------------------
\* Properties of one run over the substrate that loses the handshake ACK
\* (SpecLoss)
\* ------------------------------------------------------------------------

\* C18 (as claimed): whether or not the handshake ACK was lost, the data
\* step's send_and_wait returns the ACK for the payload, ack = client_isn + 1
\* + the payload's length, the Responder having accepted the payload.
C18_LossMasked ==
    MainAfter("data")
      => /\ cl.r # << >>
         /\ cl.r[1].ack = Plus(cl.client_isn, 1 + Len(PAYLOAD))
         /\ "p1" \in DOMAIN connections
         /\ Conn("p1").expected_seq = Plus(cl.client_isn, 1 + Len(PAYLOAD))

\* ------------------------------------------------------------------------
\* Properties of one run over the lossless substrate (SpecRun)
\* ------------------------------------------------------------------------

\* One datagram of the exchange: who sends it, its flags, and the seq and
\* ack it must carry (<< >> where the exchange leaves the field open).
Msg(from, flags, seq, ack) == [from |-> from, flags |-> flags, seq |-> seq, ack |-> ack]

MatchesMsg(w, m) ==
    /\ w.from = m.from
    /\ unpack_packet(w.raw).tag = "pkt"
    /\ unpack_packet(w.raw).pkt.flags = m.flags
    /\ m.seq = << >> \/ unpack_packet(w.raw).pkt.seq = m.seq[1]
    /\ m.ack = << >> \/ unpack_packet(w.raw).pkt.ack = m.ack[1]

\* The exchange of an Initiator with initial sequence x and an n-byte payload
\* with a Responder that drew s.
Exchange(x, s, n) ==
    << Msg("c", FLAG_SYN, << x >>, << >>),
       Msg("s", FLAG_SYN + FLAG_ACK, << s >>, << Plus(x, 1) >>),
       Msg("c", FLAG_ACK, << Plus(x, 1) >>, << Plus(s, 1) >>),
       Msg("c", FLAG_PSH, << Plus(x, 1) >>, << >>),
       Msg("s", FLAG_ACK, << >>, << Plus(x, 1 + n) >>),
       Msg("c", FLAG_FIN, << Plus(x, 1) >>, << >>),
       Msg("s", FLAG_ACK, << >>, << Plus(x, 2 + n) >>),
       Msg("s", FLAG_FIN, << s >>, << Plus(x, 2 + n) >>),
       Msg("c", FLAG_ACK, << Plus(x, 2) >>, << Plus(s, 1) >>) >>

\* The sequence number the Responder drew, read off its SYN|ACK.
DrawnByResponder ==
    IF Len(wire) >= 2 /\ unpack_packet(wire[2].raw).tag = "pkt"
    THEN unpack_packet(wire[2].raw).pkt.seq ELSE Num(0, 0)

RunOver == cl.pc \in {"done", "crashed"} /\ inbox = << >>

\* Some action of NextRun can be taken: the Initiator is not blocked in
\* recvfrom on an empty socket, or the Responder has a datagram to handle.
RunCanStep ==
    \/ cl.pc \in {"main", "L49", "ret"}
    \/ cl.pc \in {"L53", "L99"} /\ cinbox # << >>
    \/ alive /\ inbox # << >>

\* C4: over the lossless substrate the datagrams carried are, at every
\* moment, the first ones of the claimed exchange, the data packet carries
\* the n-byte payload, the run cannot stop before the Initiator is done, and
\* once it is done and the Responder has handled everything, all nine
\* datagrams were carried and the connection table is empty.
C4_EndToEnd ==
    LET ex == Exchange(cl.client_isn, DrawnByResponder, Len(PAYLOAD))
    IN  /\ Len(wire) <= Len(ex)
        /\ \A i \in 1..Len(wire) : MatchesMsg(wire[i], ex[i])
        /\ Len(wire) >= 4 => unpack_packet(wire[4].raw).pkt.payload = PAYLOAD
        /\ ~RunCanStep => RunOver
        /\ RunOver => (cl.pc = "done" /\ Len(wire) = Len(ex) /\ connections = EmptyMap)

\* The run ended after the Initiator's final ACK was handled.
C4_Witness ==
    /\ RunOver
    /\ Len(wire) = 9
    /\ connections = EmptyMap
    /\ cl.pc = "done"
    /\ cl.step = "fin"
    /\ got # << >>
    /\ got[1].raw = wire[9].raw

====
